---- MODULE Spec2Model ----
(***************************************************************************)
(* Model of the Zendesk ticket-classifier webhook                          *)
(* (src/api/zendesk_webhook.py, src/app/zendesk.py, src/app/classifier.py) *)
(*                                                                         *)
(* Spec       the webhook pipeline: concurrent deliveries for one ticket,  *)
(*            each do_POST split at its blocking helpdesk / provider calls *)
(* SpecGuard  recent_classification_exists applied to arbitrary comment    *)
(*            lists (a pure function of the fetched comments and the clock)*)
(*                                                                         *)
(* Text is modelled as a sequence of tokens (one-character strings for     *)
(* headers, words for comment bodies); time is counted in whole minutes.   *)
(***************************************************************************)
EXTENDS Integers, Sequences, FiniteSets, TLC

VARIABLES
    env,        \* process-wide configuration read from the environment
    now,        \* wall clock, in minutes
    comments,   \* the ticket's comments as stored by the helpdesk, in order
    pc,         \* per delivery: position inside do_POST
    req,        \* per delivery: the request received (headers and raw body)
    resp,       \* per delivery: the responses sent with _send, in order
    loc,        \* per delivery: local variables of do_POST
    log,        \* per delivery: the external effects performed, in order
    startT,     \* per delivery: clock value when do_POST was entered
    pred,       \* per delivery: deliveries already finished when it was entered
    gIn,        \* SpecGuard: the input given to recent_classification_exists
    gOut,       \* SpecGuard: its result
    clsEnv,     \* SpecClassify: what the classifier constructors find
    chosen,     \* SpecClassify: the outcome of choose_classifier
    cIn,        \* SpecClassify: what classify was given (text or model outcome)
    cOut,       \* SpecClassify: what classify did (raised, or its result)
    mIn,        \* SpecMapping: the candidate files load_response_mapping finds
    mOut,       \* SpecMapping: the mapping it returns
    bIn,        \* SpecConversation: what the helpdesk returns to build_conversation
    bOut        \* SpecConversation: the conversation built

vars == <<env, now, comments, pc, req, resp, loc, log, startT, pred, gIn, gOut,
          clsEnv, chosen, cIn, cOut, mIn, mOut, bIn, bOut>>

pipeVars == <<env, now, comments, pc, req, resp, loc, log, startT, pred>>
guardVars == <<gIn, gOut>>
classVars == <<clsEnv, chosen, cIn, cOut>>
funVars == <<mIn, mOut, bIn, bOut>>

\* neither the mapping loader nor build_conversation is under study
FunctionsIdle ==
    /\ mIn = <<>>
    /\ mOut = <<>>
    /\ bIn = <<>>
    /\ bOut = <<>>

----------------------------------------------------------------------------
(* Bounds *)

MaxTime == 11          \* the clock stops here
GMaxComments == 2      \* SpecGuard: longest comment list given to the guard

\* The pipeline claims speak of one delivery or of a pair of deliveries for the
\* same ticket; a delivery only ever appends comments, and the guard is
\* monotone in the comment list, so a pair shows every interleaving they name.
Deliveries == {1, 2}

(* Program constants *)

WindowMinutes == 10

----------------------------------------------------------------------------
(* Text helpers: str.startswith, str.split(" ", 1)[1], str.strip, `in` *)

StartsWith(s, p) ==
    /\ Len(s) >= Len(p)
    /\ SubSeq(s, 1, Len(p)) = p

RECURSIVE LStrip(_)
LStrip(s) ==
    IF s # <<>> /\ Head(s) = " " THEN LStrip(Tail(s)) ELSE s

RECURSIVE RStrip(_)
RStrip(s) ==
    IF s # <<>> /\ s[Len(s)] = " " THEN RStrip(SubSeq(s, 1, Len(s) - 1)) ELSE s

Strip(s) == RStrip(LStrip(s))

\* s.split(" ", 1)[1] for an s known to contain a space
AfterFirstSpace(s) ==
    LET i == CHOOSE k \in 1..Len(s) : s[k] = " " /\ \A j \in 1..(k - 1) : s[j] # " "
    IN  SubSeq(s, i + 1, Len(s))

Contains(s, tok) == \E i \in 1..Len(s) : s[i] = tok

----------------------------------------------------------------------------
(* Configuration (module-level os.getenv reads) *)

NoSecret == <<>>
SecretS == <<"s">>

\* WEBHOOK_SHARED_SECRET, the three ZENDESK_* credentials, and the categories
\* for which the response-mapping file holds a template
Envs ==
    [secret : {NoSecret, SecretS},
     creds : BOOLEAN,
     mapped : {{}, {"refund"}}]

----------------------------------------------------------------------------
(* Requests: the Authorization header and the raw body *)

BearerSp == <<"B", "e", "a", "r", "e", "r", " ">>

HdrMissing == <<>>
HdrBearerS == BearerSp \o <<"s">>
HdrBearerWrong == BearerSp \o <<"w", "r", "o", "n", "g">>
HdrBearerPadS == BearerSp \o <<" ", "s">>
HdrBasicS == <<"B", "a", "s", "i", "c", " ", "s">>
HdrBearerOnly == <<"B", "e", "a", "r", "e", "r">>

AuthHeaders ==
    {HdrMissing, HdrBearerS, HdrBearerWrong, HdrBearerPadS, HdrBasicS, HdrBearerOnly}

\* JSON scalars that may stand where a ticket identifier is expected
TidVals == {"absent", "0", "7", "'abc'"}

TicketVals ==
    [t : {"absent", "null"}, id : {"absent"}] \cup [t : {"obj"}, id : {"absent", "7"}]

NoTicket == [t |-> "absent", id |-> "absent"]

EmptyObj == [t |-> "obj", ticket_id |-> "absent", ticket |-> NoTicket]

JsonVals ==
    [t : {"obj"}, ticket_id : TidVals, ticket : TicketVals]
        \cup [t : {"list", "num"}, ticket_id : {"absent"}, ticket : {NoTicket}]

\* k = "none": no usable Content-Length, nothing is read;
\* k = "badjson": bytes that json.loads rejects; k = "json": a JSON document
RawBodies ==
    [k : {"none", "badjson"}, v : {EmptyObj}] \cup [k : {"json"}, v : JsonVals]

Requests == [auth : AuthHeaders, raw : RawBodies]

NoReq == [auth |-> HdrMissing, raw |-> [k |-> "none", v |-> EmptyObj]]

\* Python truthiness of a JSON scalar
Truthy(v) == v \notin {"absent", "null", "0", "''"}

\* int(v) raises for a non-numeric string
IntRaises(v) == v = "'abc'"
ToInt(v) == IF v = "7" THEN 7 ELSE 0

----------------------------------------------------------------------------
(* do_POST, before the try block *)

\* the bearer verification: TRUE when the request is rejected
\* variant: the token is never compared
UnauthorizedPrefixOnly(secret, auth) ==
    /\ secret # <<>>
    /\ ~StartsWith(auth, BearerSp)

\* variant: the check is made even when no secret is configured
UnauthorizedAlways(secret, auth) ==
    \/ ~StartsWith(auth, BearerSp)
    \/ Strip(AfterFirstSpace(auth)) # secret

Unauthorized(secret, auth) ==
    /\ secret # <<>>
    /\ \/ ~StartsWith(auth, BearerSp)
       \/ Strip(AfterFirstSpace(auth)) # secret

\* raw = rfile.read(length) if length else b"{}"; json.loads, {} on failure
ParseBody(raw) ==
    IF raw.k = "json" THEN raw.v ELSE EmptyObj

\* payload.get("ticket_id") or payload.get("ticket", {}).get("id");
\* raises AttributeError when payload or payload["ticket"] has no .get
TicketIdOf(payload) ==
    IF payload.t # "obj" THEN [raises |-> TRUE, val |-> "absent"]
    ELSE IF Truthy(payload.ticket_id) THEN [raises |-> FALSE, val |-> payload.ticket_id]
    ELSE IF payload.ticket.t = "absent" THEN [raises |-> FALSE, val |-> "absent"]
    ELSE IF payload.ticket.t # "obj" THEN [raises |-> TRUE, val |-> "absent"]
    ELSE [raises |-> FALSE, val |-> payload.ticket.id]

----------------------------------------------------------------------------
(* Responses *)

UnauthorizedBody == [ok |-> FALSE, error |-> "unauthorized"]
MissingBody == [ok |-> FALSE, error |-> "missing ticket_id"]
SkippedBody == [ok |-> TRUE, skipped |-> TRUE, reason |-> "recent classification exists"]
ErrorBody(msg) == [ok |-> FALSE, error |-> msg]
SuccessBody(tid, cls, posted) ==
    [ok |-> TRUE, ticket_id |-> tid, classification |-> cls, answer_posted |-> posted]

CfgError == "Missing ZENDESK_SUBDOMAIN, ZENDESK_EMAIL or ZENDESK_API_TOKEN env vars"
IntError == "invalid literal for int()"
HttpError == "HTTPError"
ProviderError == "APIError"

\* handler._send
Send(d, code, obj) ==
    resp' = [resp EXCEPT ![d] = Append(@, [code |-> code, body |-> obj])]

\* variant: the except clause answers 500
HandleException500(d, msg) ==
    /\ Send(d, 500, ErrorBody(msg))
    /\ pc' = [pc EXCEPT ![d] = "done"]

\* the except clause of do_POST
HandleException(d, msg) ==
    /\ Send(d, 200, ErrorBody(msg))
    /\ pc' = [pc EXCEPT ![d] = "done"]

\* an exception outside the try block leaves do_POST without any _send
Unhandled(d) ==
    /\ pc' = [pc EXCEPT ![d] = "crashed"]
    /\ UNCHANGED resp

Finished == {"done", "crashed"}

----------------------------------------------------------------------------
(* Comments as the helpdesk returns them *)

Marker == "\"classification\""

\* created_at: k = "ts" an ISO timestamp with offset (t minutes), "naive" one
\* without offset, "malformed" a string fromisoformat rejects, "absent" None or ""
Ts(t) == [k |-> "ts", t |-> t]
NoTs == [k |-> "absent", t |-> 0]

\* by, kind: bookkeeping of which delivery wrote the comment and as what;
\* no operation of the program reads them
Comment(public, body, plain, created, by, kind) ==
    [public |-> public, body |-> body, plain_body |-> plain,
     created_at |-> created, by |-> by, kind |-> kind]

\* variant: the note names its first key "category"
ClassBodyCategoryKey(result) ==
    <<"{", "\"category\"", ":", result.classification, ",",
      "\"confidence\"", ":", ToString(result.confidence), ",",
      "\"reasoning\"", ":", result.reasoning, "}">>

\* json.dumps of the classification result
ClassBody(result) ==
    <<"{", Marker, ":", result.classification, ",",
      "\"confidence\"", ":", ToString(result.confidence), ",",
      "\"reasoning\"", ":", result.reasoning, "}">>

\* variant: the comment is posted as a public reply
PublicComment(text, t, by, kind) ==
    Comment("true", text, text, Ts(t), by, kind)

\* the payload add_private_comment PUTs, as stored by the helpdesk at time t
PrivateComment(text, t, by, kind) ==
    Comment("false", text, text, Ts(t), by, kind)

\* variant: the public_only argument is ignored (its default is True)
GetTicketCommentsDefault(all, public_only) ==
    SelectSeq(all, LAMBDA c : c.public = "true")

\* get_ticket_comments(public_only)
GetTicketComments(all, public_only) ==
    IF public_only THEN SelectSeq(all, LAMBDA c : c.public = "true") ELSE all

----------------------------------------------------------------------------
(* recent_classification_exists, after a successful fetch *)

\* c.get("body") or c.get("plain_body") or "", stripped
GuardBody(c) == Strip(IF c.body # <<>> THEN c.body ELSE c.plain_body)

\* variant: the comparison with the cutoff is strict
GuardTimestampStrict(c, cutoff) ==
    CASE c.created_at.k = "absent" -> "continue"
      [] c.created_at.k = "malformed" -> "raise"
      [] c.created_at.k = "naive" -> "raise"
      [] OTHER -> IF c.created_at.t > cutoff THEN "return" ELSE "continue"

\* the try block around the timestamp: "raise" stands for the except branch
GuardTimestamp(c, cutoff) ==
    CASE c.created_at.k = "absent" -> "continue"
      [] c.created_at.k = "malformed" -> "raise"
      [] c.created_at.k = "naive" -> "raise"
      [] OTHER -> IF c.created_at.t >= cutoff THEN "return" ELSE "continue"

RECURSIVE ScanReversed(_, _)
ScanReversed(data, cutoff) ==
    IF data = <<>> THEN FALSE
    ELSE LET c == data[Len(data)]
             rest == SubSeq(data, 1, Len(data) - 1)
         IN  IF c.public = "true" THEN ScanReversed(rest, cutoff)
             ELSE IF GuardBody(c) = <<>> THEN ScanReversed(rest, cutoff)
             ELSE IF Contains(GuardBody(c), Marker)
                     /\ GuardTimestamp(c, cutoff) \in {"return", "raise"}
                  THEN TRUE
             ELSE ScanReversed(rest, cutoff)

RecentClassificationExists(data, nowT, window_minutes) ==
    ScanReversed(data, nowT - window_minutes)

----------------------------------------------------------------------------
(* Classifier and response mapping, as seen from do_POST *)

Result(cls, conf, why) == [classification |-> cls, confidence |-> conf, reasoning |-> why]
NoResult == Result("", 0, "")

\* what classifier.classify may hand back to do_POST
ClassifyResults ==
    {Result("refund", 90, "Refund keywords detected"),
     Result("miscellaneous", 40, "No clear category match")}

TemplateText(cat) == <<"template", "for", cat>>

\* variant: an unmapped category falls back to a fixed text
MappedAnswerWithFallback(mapped, cat) ==
    IF cat \in mapped THEN TemplateText(cat) ELSE <<"human", "intervention", "required">>

\* load_response_mapping().get(classification.lower()); <<>> stands for None
MappedAnswer(mapped, cat) ==
    IF cat \in mapped THEN TemplateText(cat) ELSE <<>>

----------------------------------------------------------------------------
(* Local state of one delivery *)

NoLoc == [ticket_id |-> 0, guarded |-> FALSE, cutoff |-> 0, result |-> NoResult, answer |-> <<>>]

Logged(d, events) == log' = [log EXCEPT ![d] = @ \o events]

Goto(d, label) == pc' = [pc EXCEPT ![d] = label]

----------------------------------------------------------------------------
(* RuleBasedClassifier.classify (classifier.py lines 123-156); a text is a *)
(* sequence of characters                                                  *)

CATEGORIES ==
    {"refund", "regeneration", "sppam", "pictures-not-received-spam", "invoice",
     "reupload", "influencers", "team-info", "feedback", "ghost-email",
     "linkedin", "miscellaneous"}

UpperCase == <<"A", "B", "C", "D", "E", "F", "G", "H", "I", "J", "K", "L", "M", "N", "O", "P", "Q", "R", "S", "T", "U", "V", "W", "X", "Y", "Z">>
LowerCase == <<"a", "b", "c", "d", "e", "f", "g", "h", "i", "j", "k", "l", "m", "n", "o", "p", "q", "r", "s", "t", "u", "v", "w", "x", "y", "z">>

\* str.lower()
Lower(s) ==
    [i \in 1..Len(s) |->
        IF \E n \in DOMAIN UpperCase : UpperCase[n] = s[i]
        THEN LowerCase[CHOOSE n \in DOMAIN UpperCase : UpperCase[n] = s[i]]
        ELSE s[i]]

\* k in t
OccursIn(k, t) ==
    \E i \in 0..(Len(t) - Len(k)) : \A j \in 1..Len(k) : t[i + j] = k[j]

\* the keyword lists of lines 127-154, in the order of the if statements
RuleGroups ==
    <<[result |-> Result("refund", 90, "Refund keywords detected"),
       keywords |-> <<<<"r", "e", "f", "u", "n", "d">>,
                      <<"m", "o", "n", "e", "y", " ", "b", "a", "c", "k">>,
                      <<"c", "h", "a", "r", "g", "e", "b", "a", "c", "k">>>>],
      [result |-> Result("pictures-not-received-spam", 85, "Delivery issue keywords detected"),
       keywords |-> <<<<"n", "e", "v", "e", "r", " ", "r", "e", "c", "e", "i", "v", "e", "d">>,
                      <<"d", "i", "d", "n", "'", "t", " ", "g", "e", "t">>,
                      <<"d", "i", "d", "n", "t", " ", "g", "e", "t">>,
                      <<"w", "h", "e", "r", "e", " ", "a", "r", "e", " ", "m", "y", " ", "h", "e", "a", "d", "s", "h", "o", "t", "s">>,
                      <<"n", "o", "t", " ", "r", "e", "c", "e", "i", "v", "e", "d", " ", "p", "h", "o", "t", "o", "s">>>>],
      [result |-> Result("regeneration", 80, "Modification request detected"),
       keywords |-> <<<<"m", "a", "k", "e", " ", "m", "y", " ", "h", "a", "i", "r">>,
                      <<"c", "h", "a", "n", "g", "e", " ", "h", "a", "i", "r">>,
                      <<"l", "o", "n", "g", "e", "r", " ", "h", "a", "i", "r">>,
                      <<"s", "h", "o", "r", "t", "e", "r", " ", "h", "a", "i", "r">>,
                      <<"m", "o", "d", "i", "f", "y">>>>],
      [result |-> Result("invoice", 90, "Invoice request keywords detected"),
       keywords |-> <<<<"i", "n", "v", "o", "i", "c", "e">>,
                      <<"r", "e", "c", "e", "i", "p", "t">>,
                      <<"b", "i", "l", "l", "i", "n", "g">>>>],
      [result |-> Result("reupload", 80, "Reupload intent detected"),
       keywords |-> <<<<"r", "e", "u", "p", "l", "o", "a", "d">>,
                      <<"u", "p", "l", "o", "a", "d", " ", "a", "g", "a", "i", "n">>,
                      <<"n", "e", "w", " ", "p", "h", "o", "t", "o", "s">>,
                      <<"d", "i", "f", "f", "e", "r", "e", "n", "t", " ", "p", "i", "c", "t", "u", "r", "e", "s">>>>],
      [result |-> Result("influencers", 80, "Influencer outreach detected"),
       keywords |-> <<<<"f", "o", "l", "l", "o", "w", "e", "r", "s">>,
                      <<"c", "o", "l", "l", "a", "b", "o", "r", "a", "t", "i", "o", "n">>,
                      <<"p", "r", "o", "m", "o", "t", "e", " ", "o", "n">>,
                      <<"i", "n", "f", "l", "u", "e", "n", "c", "e", "r">>>>],
      [result |-> Result("team-info", 75, "Team/enterprise inquiry detected"),
       keywords |-> <<<<"t", "e", "a", "m">>,
                      <<"e", "n", "t", "e", "r", "p", "r", "i", "s", "e">>,
                      <<"b", "u", "l", "k">>>>],
      [result |-> Result("feedback", 70, "Feedback keywords detected"),
       keywords |-> <<<<"f", "e", "e", "d", "b", "a", "c", "k">>,
                      <<"s", "u", "g", "g", "e", "s", "t", "i", "o", "n">>,
                      <<"h", "o", "w", " ", "d", "i", "d", " ", "w", "e", " ", "d", "o">>>>],
      [result |-> Result("linkedin", 85, "LinkedIn share detected"),
       keywords |-> <<<<"l", "i", "n", "k", "e", "d", "i", "n">>,
                      <<"s", "h", "a", "r", "e", "d", " ", "o", "n", " ", "l", "i", "n", "k", "e", "d", "i", "n">>>>],
      [result |-> Result("sppam", 95, "Spam keywords detected"),
       keywords |-> <<<<"s", "e", "o">>,
                      <<"g", "u", "e", "s", "t", " ", "p", "o", "s", "t">>,
                      <<"b", "a", "c", "k", "l", "i", "n", "k">>,
                      <<"w", "e", "b", "s", "i", "t", "e", " ", "r", "a", "n", "k", "i", "n", "g">>>>]
    >>

\* any(k in t for k in [...])
AnyKeyword(g, t) == \E n \in 1..Len(g.keywords) : OccursIn(g.keywords[n], t)

\* variant: the fall-through result carries the confidence of the LLM fallback
RuleFallbackSixty == Result("miscellaneous", 60, "No clear category match")

\* line 156
RuleFallback == Result("miscellaneous", 40, "No clear category match")

RECURSIVE FirstMatch(_, _)
FirstMatch(t, n) ==
    IF n > Len(RuleGroups) THEN RuleFallback
    ELSE IF AnyKeyword(RuleGroups[n], t) THEN RuleGroups[n].result
    ELSE FirstMatch(t, n + 1)

\* variant: a later matching group overrides an earlier one
RuleBasedClassifyLastWins(text) ==
    LET t == Lower(text)
        hits == {n \in DOMAIN RuleGroups : AnyKeyword(RuleGroups[n], t)}
    IN  IF hits = {} THEN RuleFallback
        ELSE RuleGroups[CHOOSE n \in hits : \A m \in hits : m <= n].result

RuleBasedClassify(text) == FirstMatch(Lower(text), 1)

----------------------------------------------------------------------------
(* LlmClassifier.classify and VectorLlmClassifier.classify (classifier.py *)
(* lines 176-265): what the provider hands back, and what is made of it   *)

\* a JSON value at the key "classification": absent, a string s, a number,
\* null, a list or an object
Cls(t, s) == [t |-> t, s |-> s]

ClsVals ==
    {Cls("absent", ""), Cls("str", "refund"), Cls("str", "ghost-email"),
     Cls("str", "billing"), Cls("str", "Refund"),
     Cls("num", ""), Cls("null", ""), Cls("list", ""), Cls("obj", "")}

\* a JSON value at the key "confidence": absent, an integer n, a float (n is
\* the value in tenths), a string s, null, a list, or true (n = 1)
Conf(t, n, str) == [t |-> t, n |-> n, s |-> str]

ConfVals ==
    {Conf("absent", 0, <<>>),
     Conf("int", 90, <<>>), Conf("int", 150, <<>>), Conf("int", -5, <<>>),
     Conf("int", 0, <<>>), Conf("int", 100, <<>>),
     Conf("float", 907, <<>>), Conf("float", -55, <<>>),
     Conf("str", 0, <<"8", "5">>), Conf("str", 0, <<"h", "i", "g", "h">>),
     Conf("str", 0, <<"9", "0", ".", "5">>),
     Conf("null", 0, <<>>), Conf("list", 0, <<>>), Conf("bool", 1, <<>>)}

ReasoningVals == {"absent", "x"}

\* a JSON value: an object with the three keys, or a list, number, string,
\* null (t names which)
Json(t, cls, conf, why) ==
    [t |-> t, classification |-> cls, confidence |-> conf, reasoning |-> why]

NonObject(t) == Json(t, Cls("absent", ""), Conf("absent", 0, <<>>), "absent")

JsonObjects ==
    {Json("obj", c, n, w) : c \in ClsVals, n \in ConfVals, w \in ReasoningVals}

JsonValues ==
    JsonObjects \cup {NonObject("list"), NonObject("num"), NonObject("str"), NonObject("null")}

\* message.content: None ("none"), "" ("empty"), white space only ("blank"),
\* or a text that is a JSON document written bare, inside a ``` fence, or
\* after a sentence of prose; valid = FALSE when the document is not JSON
Content(k, wrap, valid, v) == [k |-> k, wrap |-> wrap, valid |-> valid, v |-> v]

NoText(k) == Content(k, "bare", FALSE, NonObject("null"))

Contents ==
    {NoText("none"), NoText("empty"), NoText("blank")}
    \cup {Content("text", w, TRUE, v) : w \in {"bare", "fenced", "prose"}, v \in JsonValues}
    \cup {Content("text", w, FALSE, NonObject("null")) : w \in {"bare", "fenced", "prose"}}

\* openai.chat.completions.create raises, or returns a message
ModelOutcomes ==
    {[call |-> "raises", content |-> NoText("none")]}
    \cup {[call |-> "returns", content |-> c] : c \in Contents}

\* variant: the content is parsed as given
ContentAsGiven(c) == c

\* content or "{}" (lines 183, 241)
ContentOrDefault(c) ==
    IF c.k \in {"none", "empty"}
    THEN Content("text", "bare", TRUE,
                 Json("obj", Cls("absent", ""), Conf("absent", 0, <<>>), "absent"))
    ELSE c

\* _extract_json_obj: after strip() and the removal of the fences, json.loads
\* returns whatever JSON value the text is; otherwise re.search is reached,
\* whose pattern uses (?R), which the re module rejects with re.error
ExtractJsonObj(c) ==
    IF c.k = "text" /\ c.wrap \in {"bare", "fenced"} /\ c.valid
    THEN [raises |-> FALSE, data |-> c.v]
    ELSE [raises |-> TRUE, data |-> NonObject("null")]

Digits == <<"0", "1", "2", "3", "4", "5", "6", "7", "8", "9">>

IsDigit(ch) == \E n \in DOMAIN Digits : Digits[n] = ch

DigitVal(ch) == (CHOOSE n \in DOMAIN Digits : Digits[n] = ch) - 1

RECURSIVE DecimalValue(_)
DecimalValue(str) ==
    IF str = <<>> THEN 0
    ELSE 10 * DecimalValue(SubSeq(str, 1, Len(str) - 1)) + DigitVal(str[Len(str)])

\* int(x) raises ValueError or TypeError
ConfIntRaises(x) ==
    \/ x.t \in {"null", "list"}
    \/ x.t = "str" /\ (x.s = <<>> \/ \E i \in 1..Len(x.s) : ~IsDigit(x.s[i]))

\* int(x): a float is truncated towards zero, a string of digits is read
ConfInt(x) ==
    CASE x.t = "float" -> IF x.n >= 0 THEN x.n \div 10 ELSE -((-x.n) \div 10)
      [] x.t = "str" -> DecimalValue(x.s)
      [] OTHER -> x.n

FallbackReasoning == "LLM output parsing fallback"

Parsed(cls, conf, why) == [cls |-> cls, conf |-> conf, why |-> why]

\* the try block of lines 192-200 (254-262)
ParseOutput(c) ==
    LET x == ExtractJsonObj(c)
        d == x.data
    IN  IF x.raises \/ d.t # "obj" \/ ConfIntRaises(d.confidence)
        THEN Parsed(Cls("str", "miscellaneous"), 60, FallbackReasoning)
        ELSE Parsed(IF d.classification.t = "absent"
                        THEN Cls("str", "miscellaneous") ELSE d.classification,
                    IF d.confidence.t = "absent" THEN 60 ELSE ConfInt(d.confidence),
                    IF d.reasoning = "absent" THEN "" ELSE d.reasoning)

\* variant: a string outside the category set is kept
CoerceCategoryKeep(cls) == IF cls.t = "str" THEN cls.s ELSE "miscellaneous"

\* lines 201-202 (263-264), for a hashable value
CoerceCategory(cls) ==
    IF cls.t = "str" /\ cls.s \in CATEGORIES THEN cls.s ELSE "miscellaneous"

\* `classification not in CATEGORIES` hashes the value: TypeError for a list
\* or a dict
Unhashable(cls) == cls.t \in {"list", "obj"}

Raised == [raises |-> TRUE, result |-> NoResult]
Returned(r) == [raises |-> FALSE, result |-> r]

LlmClassify(outcome) ==
    IF outcome.call = "raises" THEN Raised
    ELSE LET p == ParseOutput(ContentOrDefault(outcome.content))
         IN  IF Unhashable(p.cls) THEN Raised
             ELSE Returned(Result(CoerceCategory(p.cls), p.conf, p.why))

\* retriever.search (line 225) comes first; the rest is the code of
\* LlmClassifier.classify repeated
VectorLlmClassify(search, outcome) ==
    IF search = "raises" THEN Raised ELSE LlmClassify(outcome)

----------------------------------------------------------------------------
(* choose_classifier (zendesk_webhook.py lines 23-35) and the constructors *)

\* what the constructors find: QDRANT_URL is "unset" (absent or empty), "blank"
\* (white space only) or "set"; OPENAI_API_KEY is non-empty; `import openai`
\* succeeded; `from app.vector_store import ...` succeeded; `from qdrant_client
\* import QdrantClient` succeeded; QdrantClient(url, api_key) returns
\* (QdrantClient is bound only inside app.vector_store, and can only be
\* called when bound)
ClsEnvs ==
    {e \in [qdrant_url : {"unset", "blank", "set"},
            openai_key : BOOLEAN,
            openai_pkg : BOOLEAN,
            vector_mod : BOOLEAN,
            qdrant_pkg : BOOLEAN,
            client_ok  : BOOLEAN] :
        /\ e.qdrant_pkg => e.vector_mod
        /\ e.client_ok => e.qdrant_pkg}

NoClsEnv ==
    [qdrant_url |-> "unset", openai_key |-> FALSE, openai_pkg |-> FALSE,
     vector_mod |-> FALSE, qdrant_pkg |-> FALSE, client_ok |-> FALSE]

\* no classifier is under study
ClassifierIdle ==
    /\ clsEnv = NoClsEnv
    /\ chosen = <<>>
    /\ cIn = <<>>
    /\ cOut = <<>>

QdrantConfigFromEnvRaises(e) == e.qdrant_url # "set"

QdrantRetrieverInitRaises(e) == ~e.qdrant_pkg \/ ~e.openai_pkg \/ ~e.client_ok

VectorLlmInitRaises(e) ==
    \/ ~e.openai_pkg
    \/ ~e.vector_mod
    \/ QdrantConfigFromEnvRaises(e)
    \/ QdrantRetrieverInitRaises(e)

LlmInitRaises(e) == ~e.openai_pkg \/ ~e.openai_key

Chosen(kind) == [raises |-> FALSE, kind |-> kind]
ChooseRaised == [raises |-> TRUE, kind |-> "none"]

\* variant: the constructors are called without try/except
ChooseClassifierUnguarded(e) ==
    IF e.qdrant_url # "unset" /\ e.openai_key
    THEN IF VectorLlmInitRaises(e) THEN ChooseRaised ELSE Chosen("vector_llm")
    ELSE IF e.openai_key
    THEN IF LlmInitRaises(e) THEN ChooseRaised ELSE Chosen("llm")
    ELSE Chosen("rule")

ChooseClassifier(e) ==
    IF e.qdrant_url # "unset" /\ e.openai_key /\ ~VectorLlmInitRaises(e)
    THEN Chosen("vector_llm")
    ELSE IF e.openai_key /\ ~LlmInitRaises(e)
    THEN Chosen("llm")
    ELSE Chosen("rule")

----------------------------------------------------------------------------
(* ZendeskConfig.from_env (zendesk.py lines 27-34) *)

\* variant: from_env accepts a configuration without credentials
FromEnvNeverRaises(e) == FALSE

\* RuntimeError when the subdomain, the email or the API token is not set
FromEnvRaises(e) == ~e.creds

----------------------------------------------------------------------------
(* do_POST up to the first helpdesk call (lines 141-166 and int(ticket_id)) *)

ReceiveFrom(d, senders) ==
    /\ pc[d] = "idle"
    /\ \E r \in senders :
        /\ req' = [req EXCEPT ![d] = r]
        /\ startT' = [startT EXCEPT ![d] = now]
        /\ pred' = [pred EXCEPT ![d] = {e \in Deliveries : pc[e] \in Finished}]
        /\ IF Unauthorized(env.secret, r.auth)
           THEN /\ Send(d, 401, UnauthorizedBody)
                /\ Goto(d, "done")
                /\ UNCHANGED <<loc, log>>
           ELSE LET tid == TicketIdOf(ParseBody(r.raw))
                IN  /\ Logged(d, <<"body">>)
                    /\ IF tid.raises
                       THEN Unhandled(d) /\ UNCHANGED loc
                       ELSE IF ~Truthy(tid.val)
                       THEN Send(d, 400, MissingBody) /\ Goto(d, "done") /\ UNCHANGED loc
                       ELSE IF FromEnvRaises(env)
                       THEN HandleException(d, CfgError) /\ UNCHANGED loc
                       ELSE IF IntRaises(tid.val)
                       THEN HandleException(d, IntError) /\ UNCHANGED loc
                       ELSE /\ loc' = [loc EXCEPT ![d].ticket_id = ToInt(tid.val)]
                            /\ Goto(d, "guard")
                            /\ UNCHANGED resp
    /\ UNCHANGED <<env, now, comments>>

(* recent_classification_exists and the skip (lines 38-60, 169-170) *)

\* variant: the skip response is sent but do_POST does not return
SkipWithoutReturn(d) ==
    /\ Send(d, 200, SkippedBody)
    /\ Goto(d, "build")

\* return self._send(200, {"ok": True, "skipped": True, ...})
SkipResponse(d) ==
    /\ Send(d, 200, SkippedBody)
    /\ Goto(d, "done")

\* variant: a failed comment fetch counts as "already handled"
GuardFetchFailsSkips(d) ==
    /\ pc[d] = "guard"
    /\ Logged(d, <<"get_comments_err", "guard_true">>)
    /\ SkipResponse(d)
    /\ UNCHANGED <<env, now, comments, req, loc, startT, pred>>

GuardFetchFails(d) ==
    /\ pc[d] = "guard"
    /\ Logged(d, <<"get_comments_err", "guard_false">>)
    /\ Goto(d, "build")
    /\ UNCHANGED <<env, now, comments, req, resp, loc, startT, pred>>

Guard(d) ==
    /\ pc[d] = "guard"
    /\ LET data == GetTicketComments(comments, FALSE)
           hit == RecentClassificationExists(data, now, WindowMinutes)
       IN  /\ loc' = [loc EXCEPT ![d].guarded = TRUE, ![d].cutoff = now - WindowMinutes]
           /\ IF hit
              THEN /\ Logged(d, <<"get_comments", "guard_true">>)
                   /\ SkipResponse(d)
              ELSE /\ Logged(d, <<"get_comments", "guard_false">>)
                   /\ Goto(d, "build")
                   /\ UNCHANGED resp
    /\ UNCHANGED <<env, now, comments, req, startT, pred>>

(* client.build_conversation (lines 172-176; zendesk.py 71-95) *)

BuildConversation(d) ==
    /\ pc[d] = "build"
    /\ \/ /\ Logged(d, <<"get_ticket", "get_public_comments", "conversation">>)
          /\ Goto(d, "classify")
          /\ UNCHANGED resp
       \/ /\ Logged(d, <<"get_ticket_err">>)
          /\ HandleException(d, HttpError)
       \/ /\ Logged(d, <<"get_ticket", "get_public_comments_err">>)
          /\ HandleException(d, HttpError)
    /\ UNCHANGED <<env, now, comments, req, loc, startT, pred>>

(* choose_classifier and classify (lines 178-182) *)

Classify(d) ==
    /\ pc[d] = "classify"
    /\ \/ \E r \in ClassifyResults :
            /\ loc' = [loc EXCEPT ![d].result = r]
            /\ Logged(d, <<"classify">>)
            /\ Goto(d, "post_class")
            /\ UNCHANGED resp
       \/ /\ Logged(d, <<"classify_err">>)
          /\ HandleException(d, ProviderError)
          /\ UNCHANGED loc
    /\ UNCHANGED <<env, now, comments, req, startT, pred>>

(* the classification note, then the mapping lookup (lines 184-194, 200-205) *)

\* variant: a failed classification write is swallowed and the handler goes on
\* to the mapping lookup and the mapped answer
WriteClassificationSwallowed(d) ==
    /\ pc[d] = "post_class"
    /\ LET answer == MappedAnswer(env.mapped, loc[d].result.classification)
       IN  /\ loc' = [loc EXCEPT ![d].answer = answer]
           /\ \/ /\ comments' = Append(comments,
                        PrivateComment(ClassBody(loc[d].result), now, d, "classification"))
                  /\ Logged(d, <<"put_class", "load_mapping">>)
               \/ /\ UNCHANGED comments
                  /\ Logged(d, <<"put_class_err", "load_mapping">>)
           /\ IF answer # <<>>
              THEN Goto(d, "post_tmpl") /\ UNCHANGED resp
              ELSE /\ Send(d, 200, SuccessBody(loc[d].ticket_id, loc[d].result.classification, FALSE))
                   /\ Goto(d, "done")
    /\ UNCHANGED <<env, now, req, startT, pred>>

WriteClassification(d) ==
    /\ pc[d] = "post_class"
    /\ \/ LET answer == MappedAnswer(env.mapped, loc[d].result.classification)
          IN  /\ comments' = Append(comments,
                    PrivateComment(ClassBody(loc[d].result), now, d, "classification"))
              /\ loc' = [loc EXCEPT ![d].answer = answer]
              /\ IF answer # <<>>
                 THEN /\ Logged(d, <<"put_class", "load_mapping">>)
                      /\ Goto(d, "post_tmpl")
                      /\ UNCHANGED resp
                 ELSE /\ Logged(d, <<"put_class", "load_mapping">>)
                      /\ Send(d, 200, SuccessBody(loc[d].ticket_id, loc[d].result.classification, FALSE))
                      /\ Goto(d, "done")
       \/ /\ Logged(d, <<"put_class_err">>)
          /\ HandleException(d, HttpError)
          /\ UNCHANGED <<comments, loc>>
    /\ UNCHANGED <<env, now, req, startT, pred>>

\* variant: the guard is evaluated again, on the live ticket, before the write
PostClassificationRechecked(d) ==
    IF RecentClassificationExists(GetTicketComments(comments, FALSE), now, WindowMinutes)
    THEN /\ pc[d] = "post_class"
         /\ SkipResponse(d)
         /\ UNCHANGED <<env, now, comments, req, loc, log, startT, pred>>
    ELSE WriteClassification(d)

PostClassification(d) == WriteClassification(d)

(* the mapped answer (lines 195-205) *)

PostTemplate(d) ==
    /\ pc[d] = "post_tmpl"
    /\ \/ /\ comments' = Append(comments, PrivateComment(loc[d].answer, now, d, "template"))
          /\ Logged(d, <<"put_tmpl">>)
          /\ Send(d, 200, SuccessBody(loc[d].ticket_id, loc[d].result.classification, TRUE))
          /\ Goto(d, "done")
       \/ /\ Logged(d, <<"put_tmpl_err">>)
          /\ HandleException(d, HttpError)
          /\ UNCHANGED comments
    /\ UNCHANGED <<env, now, req, loc, startT, pred>>

(* the clock: a minute passes at any point of a delivery; the stretch from *)
(* minute 0 to the end of the first window passes in one step, while no    *)
(* delivery is in flight (no call of a delivery lasts that long)           *)

Tick ==
    /\ now < MaxTime
    /\ IF now < WindowMinutes
       THEN /\ \A d \in Deliveries : pc[d] \in {"idle", "done", "crashed"}
            /\ now' = WindowMinutes
       ELSE now' = now + 1
    /\ UNCHANGED <<env, comments, pc, req, resp, loc, log, startT, pred>>

----------------------------------------------------------------------------------------------------------------------------------------------------
(* The webhook pipeline: two deliveries for one ticket *)

\* the ticket as opened by the customer, before any delivery
InitialComments ==
    << Comment("true", <<"hello">>, <<"hello">>, Ts(-30), 0, "customer") >>

Body(tid, ticket) == [k |-> "json", v |-> [t |-> "obj", ticket_id |-> tid, ticket |-> ticket]]

\* what the helpdesk trigger and a stray caller send
TriggerRequests ==
    {[auth |-> HdrBearerS, raw |-> Body("7", NoTicket)],
     [auth |-> HdrBearerS, raw |-> Body("absent", [t |-> "obj", id |-> "7"])],
     [auth |-> HdrMissing, raw |-> Body("7", NoTicket)],
     [auth |-> HdrBearerS, raw |-> Body("absent", NoTicket)]}

InitDeliveries ==
    /\ pc = [d \in Deliveries |-> "idle"]
    /\ req = [d \in Deliveries |-> NoReq]
    /\ resp = [d \in Deliveries |-> <<>>]
    /\ loc = [d \in Deliveries |-> NoLoc]
    /\ log = [d \in Deliveries |-> <<>>]
    /\ startT = [d \in Deliveries |-> 0]
    /\ pred = [d \in Deliveries |-> {}]

Init ==
    /\ env \in Envs
    /\ now = 0
    /\ comments = InitialComments
    /\ InitDeliveries
    /\ gIn = <<>>
    /\ gOut = <<>>
    /\ ClassifierIdle
    /\ FunctionsIdle

Receive(d) == ReceiveFrom(d, TriggerRequests)

Next ==
    \/ \E d \in Deliveries :
        \/ Receive(d)
        \/ GuardFetchFails(d)
        \/ Guard(d)
        \/ BuildConversation(d)
        \/ Classify(d)
        \/ PostClassification(d)
        \/ PostTemplate(d)
    \/ Tick

Spec == Init /\ [][Next /\ UNCHANGED <<guardVars, classVars, funVars>>]_vars

----------------------------------------------------------------------------
(* One request of any shape, on a ticket with or without a recent note *)

RecentNote ==
    PrivateComment(ClassBody(Result("refund", 90, "Refund keywords detected")), -1, 0, "classification")

InitRequest ==
    /\ env \in Envs
    /\ now = 0
    /\ comments \in {InitialComments, Append(InitialComments, RecentNote)}
    /\ InitDeliveries
    /\ gIn = <<>>
    /\ gOut = <<>>
    /\ ClassifierIdle
    /\ FunctionsIdle

ReceiveAny == ReceiveFrom(1, Requests)

NextRequest ==
    \/ ReceiveAny
    \/ GuardFetchFails(1)
    \/ Guard(1)
    \/ BuildConversation(1)
    \/ Classify(1)
    \/ PostClassification(1)
    \/ PostTemplate(1)
    \/ Tick

SpecRequest == InitRequest /\ [][NextRequest /\ UNCHANGED <<guardVars, classVars, funVars>>]_vars

----------------------------------------------------------------------------
(* recent_classification_exists on arbitrary fetched comments *)

GuardNow == 20

GuardTexts ==
    {[body |-> <<>>, plain_body |-> <<>>],
     [body |-> <<" ">>, plain_body |-> <<Marker>>],
     [body |-> <<>>, plain_body |-> <<"{", Marker, "}">>],
     [body |-> <<" ", "{", Marker, "}", " ">>, plain_body |-> <<>>],
     [body |-> <<"classification">>, plain_body |-> <<"classification">>]}

GuardStamps ==
    {NoTs, [k |-> "malformed", t |-> 0], [k |-> "naive", t |-> GuardNow - 1],
     Ts(GuardNow - 15), Ts(GuardNow - 11), Ts(GuardNow - 10), Ts(GuardNow - 1)}

GuardComments ==
    {Comment(p, x.body, x.plain_body, c, 0, "fetched") :
        p \in {"true", "false", "absent"}, x \in GuardTexts, c \in GuardStamps}

GuardInputs(n) == [1..n -> GuardComments]

InitGuard ==
    /\ env = [secret |-> NoSecret, creds |-> TRUE, mapped |-> {}]
    /\ now = GuardNow
    /\ comments = <<>>
    /\ InitDeliveries
    /\ \E n \in 0..GMaxComments : gIn \in GuardInputs(n)
    /\ gOut = <<>>
    /\ ClassifierIdle
    /\ FunctionsIdle

\* the fetch succeeded with gIn; gOut holds the value returned
GuardApply ==
    /\ gOut = <<>>
    /\ gOut' = <<RecentClassificationExists(gIn, now, WindowMinutes)>>
    /\ UNCHANGED <<gIn, pipeVars, classVars, funVars>>

SpecGuard == InitGuard /\ [][GuardApply]_vars

----------------------------------------------------------------------------
(* The classifier: selection, then one classify call *)

MaxFrags == 2

\* pieces of ticket text: keywords of every group, in lower and mixed case,
\* neutral words, and halves of keywords
Frags ==
    {<<"r", "e", "f", "u", "n", "d">>,
     <<"m", "o", "n", "e", "y", " ", "b", "a", "c", "k">>,
     <<"c", "h", "a", "r", "g", "e", "b", "a", "c", "k">>,
     <<"R", "E", "F", "U", "N", "D">>,
     <<"M", "o", "n", "e", "y", " ", "B", "a", "c", "k">>,
     <<"n", "e", "v", "e", "r", " ", "r", "e", "c", "e", "i", "v", "e", "d">>,
     <<"m", "o", "d", "i", "f", "y">>,
     <<"i", "n", "v", "o", "i", "c", "e">>,
     <<"r", "e", "u", "p", "l", "o", "a", "d">>,
     <<"f", "o", "l", "l", "o", "w", "e", "r", "s">>,
     <<"t", "e", "a", "m">>,
     <<"f", "e", "e", "d", "b", "a", "c", "k">>,
     <<"l", "i", "n", "k", "e", "d", "i", "n">>,
     <<"s", "e", "o">>,
     <<"h", "e", "l", "l", "o">>,
     <<"r", "e">>,
     <<"f", "u", "n", "d">>}

RECURSIVE Flatten(_)
Flatten(fs) == IF fs = <<>> THEN <<>> ELSE fs[1] \o Flatten(Tail(fs))

NoOutcome == [call |-> "none", content |-> NoText("none")]

InitClassify ==
    /\ env = [secret |-> NoSecret, creds |-> TRUE, mapped |-> {}]
    /\ now = 0
    /\ comments = <<>>
    /\ InitDeliveries
    /\ gIn = <<>>
    /\ gOut = <<>>
    /\ clsEnv \in ClsEnvs
    /\ chosen = <<>>
    /\ cIn = <<>>
    /\ cOut = <<>>
    /\ FunctionsIdle

Choose ==
    /\ chosen = <<>>
    /\ chosen' = <<ChooseClassifier(clsEnv)>>
    /\ UNCHANGED <<clsEnv, cIn, cOut, pipeVars, guardVars, funVars>>

Running(kind) == chosen = <<Chosen(kind)>> /\ cOut = <<>>

ClassifyRule ==
    /\ Running("rule")
    /\ \E n \in 0..MaxFrags : \E fs \in [1..n -> Frags] :
        LET text == Flatten(fs)
        IN  /\ cIn' = <<text>>
            /\ cOut' = <<Returned(RuleBasedClassify(text))>>
    /\ UNCHANGED <<clsEnv, chosen, pipeVars, guardVars, funVars>>

ClassifyLlm ==
    /\ Running("llm")
    /\ \E o \in ModelOutcomes :
        /\ cIn' = <<[search |-> "none", outcome |-> o]>>
        /\ cOut' = <<LlmClassify(o)>>
    /\ UNCHANGED <<clsEnv, chosen, pipeVars, guardVars, funVars>>

ClassifyVector ==
    /\ Running("vector_llm")
    /\ \E i \in {[search |-> "raises", outcome |-> NoOutcome]}
               \cup {[search |-> "returns", outcome |-> o] : o \in ModelOutcomes} :
        /\ cIn' = <<i>>
        /\ cOut' = <<VectorLlmClassify(i.search, i.outcome)>>
    /\ UNCHANGED <<clsEnv, chosen, pipeVars, guardVars, funVars>>

NextClassify ==
    \/ Choose
    \/ ClassifyRule
    \/ ClassifyLlm
    \/ ClassifyVector

SpecClassify == InitClassify /\ [][NextClassify]_vars

----------------------------------------------------------------------------
(* load_response_mapping (zendesk_webhook.py lines 63-131). A file is a    *)
(* sequence of lines, a line a sequence of tokens: delimiters, blanks and  *)
(* words                                                                   *)

\* k = "missing": p.exists() is false; "unreadable": opening or reading
\* raises; "file": the lines can be read
File(k, lines) == [k |-> k, lines |-> lines]

MissingFile == File("missing", <<>>)

NumConventional == 5

\* RESPONSE_MAP_PATH when set, then the five conventional paths
Candidates(in) ==
    (IF in.override_set THEN <<in.override>> ELSE <<>>) \o in.conventional

DetectDelimiter(lines) ==
    LET Delimiters == <<";", ",", "\t", "|">>
        present(n) == \E i \in 1..Len(lines) : Contains(lines[i], Delimiters[n])
    IN  IF \E n \in DOMAIN Delimiters : present(n)
        THEN Delimiters[CHOOSE n \in DOMAIN Delimiters :
                            present(n) /\ \A m \in 1..(n - 1) : ~present(m)]
        ELSE ","

RECURSIVE SplitLine(_, _)
SplitLine(line, d) ==
    IF ~Contains(line, d) THEN <<line>>
    ELSE LET i == CHOOSE k \in 1..Len(line) :
                      line[k] = d /\ \A j \in 1..(k - 1) : line[j] # d
         IN  <<SubSeq(line, 1, i - 1)>> \o SplitLine(SubSeq(line, i + 1, Len(line)), d)

\* str.lower(), word by word
LowerToken(tok) ==
    CASE tok = "Category" -> "category"
      [] tok = "Response_Text" -> "response_text"
      [] tok = "Refund" -> "refund"
      [] tok = "Policy" -> "policy"
      [] OTHER -> tok

LowerField(f) == [i \in 1..Len(f) |-> LowerToken(f[i])]

\* variant: the category is kept as written
FieldKeyAsWritten(f) == Strip(f)

\* (x or "").strip().lower()
FieldKey(f) == LowerField(Strip(f))

\* mapping[cat] = txt on a mapping kept as a set of entries
Put(m, cat, txt) == {e \in m : e.k # cat} \cup {[k |-> cat, v |-> txt]}

\* the `if cat and txt` of lines 110 and 121, over the rows in file order
RECURSIVE Collect(_, _)
Collect(pairs, n) ==
    IF n = 0 THEN {}
    ELSE LET m == Collect(pairs, n - 1)
             q == pairs[n]
         IN  IF q.cat # <<>> /\ q.txt # <<>> THEN Put(m, q.cat, q.txt) ELSE m

\* row.get(name) of csv.DictReader: the row is keyed by the header as written;
\* a column the row does not reach is None
ColumnValue(header, row, name) ==
    LET cols == {i \in 1..Len(header) : header[i] = name /\ i <= Len(row)}
    IN  IF cols = {} THEN <<>>
        ELSE row[CHOOSE i \in cols : \A j \in cols : j <= i]

\* lines 105-111: the rows after the header
HeaderedPairs(rows, resp_key) ==
    [i \in 1..(Len(rows) - 1) |->
        [cat |-> FieldKey(ColumnValue(rows[1], rows[i + 1], <<"category">>)),
         txt |-> Strip(ColumnValue(rows[1], rows[i + 1], resp_key))]]

\* lines 114-122: every row, first two columns
HeaderlessPairs(rows) ==
    [i \in 1..Len(rows) |->
        IF Len(rows[i]) < 2 \/ FieldKey(rows[i][1]) = <<"category">>
        THEN [cat |-> <<>>, txt |-> <<>>]
        ELSE [cat |-> FieldKey(rows[i][1]), txt |-> Strip(rows[i][2])]]

\* lines 97-122 on one readable candidate
ParseCsv(lines) ==
    LET d == DetectDelimiter(lines)
        \* csv.reader: a blank line is the empty row
        rows == [i \in 1..Len(lines) |->
                    IF lines[i] = <<>> THEN <<>> ELSE SplitLine(lines[i], d)]
        fieldnames == IF rows = <<>> THEN <<>>
                      ELSE [i \in 1..Len(rows[1]) |-> FieldKey(rows[1][i])]
        has(name) == \E i \in 1..Len(fieldnames) : fieldnames[i] = name
    IN  IF has(<<"category">>) /\ (has(<<"response_text">>) \/ has(<<"response">>))
        THEN LET pairs == HeaderedPairs(rows, IF has(<<"response_text">>)
                                              THEN <<"response_text">>
                                              ELSE <<"response">>)
             IN  Collect(pairs, Len(pairs))
        ELSE LET pairs == HeaderlessPairs(rows)
             IN  Collect(pairs, Len(pairs))

\* the loop of lines 93-131: a missing candidate is skipped, one that raises
\* is skipped by the except clause, the first other one is returned
RECURSIVE LoadResponseMapping(_)
LoadResponseMapping(cands) ==
    IF cands = <<>> THEN {}
    ELSE IF Head(cands).k \in {"missing", "unreadable"}
    THEN LoadResponseMapping(Tail(cands))
    ELSE ParseCsv(Head(cands).lines)

\* mapping.get(key); <<>> stands for None
Lookup(m, key) ==
    IF \E e \in m : e.k = key THEN (CHOOSE e \in m : e.k = key).v ELSE <<>>

----------------------------------------------------------------------------
(* The mapping loader on a set of candidate files *)

MaxRows == 2

\* a row as written by whoever keeps the file: its fields
RowSet ==
    {<<c, t>> :
        c \in {<<>>, <<" ">>, <<"refund">>, <<" ", "Refund", " ">>, <<"invoice">>},
        t \in {<<>>, <<"policy">>, <<" ", "bill", " ">>, <<"Policy">>,
               <<"hello", ",", " ", "thanks">>}}
    \cup {<<>>, <<<<"refund">>>>, <<<<"invoice">>, <<"bill">>, <<"policy">>>>}

RECURSIVE JoinFields(_, _)
JoinFields(fields, d) ==
    IF fields = <<>> THEN <<>>
    ELSE IF Len(fields) = 1 THEN fields[1]
    ELSE fields[1] \o <<d>> \o JoinFields(Tail(fields), d)

\* the file with delimiter ; and header category;response_text
RenderCsv(rows) ==
    <<<<"category", ";", "response_text">>>>
    \o [i \in 1..Len(rows) |-> JoinFields(rows[i], ";")]

JsonRefundFile ==
    File("file", <<<<"{", "\"refund\"", ":", " ", "\"Please see our refund policy.\"", "}">>>>)

CsvA == File("file", <<<<"category", ";", "response_text">>, <<"refund", ";", "policy">>>>)

OverrideChoices ==
    {[set |-> FALSE, file |-> MissingFile]}
    \cup {[set |-> TRUE, file |-> f] :
            f \in {MissingFile, File("unreadable", <<>>), File("file", <<>>),
                   File("file", <<<<"category", ";", "response_text">>>>),
                   File("file", <<<<"Category", ";", "response">>, <<"invoice", ";", "bill">>>>),
                   JsonRefundFile, CsvA}}

ConventionalFiles ==
    {MissingFile, File("file", <<>>), CsvA, File("file", <<<<"refund", ",", "bill">>>>)}

InitMapping ==
    /\ env = [secret |-> NoSecret, creds |-> TRUE, mapped |-> {}]
    /\ now = 0
    /\ comments = <<>>
    /\ InitDeliveries
    /\ gIn = <<>>
    /\ gOut = <<>>
    /\ ClassifierIdle
    /\ \/ \E n \in 0..MaxRows : \E rows \in [1..n -> RowSet] :
            mIn = <<[override_set |-> TRUE, override |-> File("file", RenderCsv(rows)),
                     conventional |-> [i \in 1..NumConventional |-> MissingFile],
                     rendered |-> TRUE, rows |-> rows]>>
       \/ \E o \in OverrideChoices : \E conv \in [1..NumConventional -> ConventionalFiles] :
            mIn = <<[override_set |-> o.set, override |-> o.file, conventional |-> conv,
                     rendered |-> FALSE, rows |-> <<>>]>>
    /\ mOut = <<>>
    /\ bIn = <<>>
    /\ bOut = <<>>

MappingLoad ==
    /\ mOut = <<>>
    /\ mOut' = <<LoadResponseMapping(Candidates(mIn[1]))>>
    /\ UNCHANGED <<mIn, bIn, bOut, pipeVars, guardVars, classVars>>

SpecMapping == InitMapping /\ [][MappingLoad]_vars

----------------------------------------------------------------------------
(* ZendeskClient.build_conversation (zendesk.py lines 64-95) as a function *)
(* of the ticket description, the comments and the staff allow-list        *)

\* a JSON field that is null or absent, or a string of tokens
NoneValue == [t |-> "none", s |-> <<>>]
Str(s) == [t |-> "str", s |-> s]

\* `x` is taken by `x or y`: a non-empty string
NonEmptyStr(v) == v.t = "str" /\ v.s # <<>>

\* get_ticket_comments with public_only: bool(c.get("public", False))
IsPublic(c) == c.public = "true"

\* (plain_body or html_body or body or "").strip()
CommentText(c) ==
    Strip(IF NonEmptyStr(c.plain_body) THEN c.plain_body.s
          ELSE IF NonEmptyStr(c.html_body) THEN c.html_body.s
          ELSE IF NonEmptyStr(c.body) THEN c.body.s
          ELSE <<>>)

\* variant: the comparison is made without trimming
IsDupUntrimmed(cs, description) ==
    /\ cs # <<>>
    /\ cs[1].plain_body.t = "str"
    /\ cs[1].plain_body.s = description.s

\* lines 79-82
IsDup(cs, description) ==
    /\ cs # <<>>
    /\ cs[1].plain_body.t = "str"
    /\ Strip(cs[1].plain_body.s) = Strip(description.s)

\* line 88
RoleOf(c, staff) ==
    IF staff.given /\ staff.ids # {} /\ c.author_id \in staff.ids
    THEN "Support Staff" ELSE "Customer"

\* the loop of lines 84-92 over the first n public comments
RECURSIVE Turns(_, _, _, _)
Turns(cs, dup, staff, n) ==
    IF n = 0 THEN <<>>
    ELSE LET before == Turns(cs, dup, staff, n - 1)
         IN  IF (n = 1 /\ dup) \/ CommentText(cs[n]) = <<>> THEN before
             ELSE Append(before, [role |-> RoleOf(cs[n], staff),
                                  message |-> CommentText(cs[n])])

ConversationOf(in) ==
    LET cs == SelectSeq(in.comments, IsPublic)
    IN  \* line 82 calls description.strip(): a null description raises
        IF cs # <<>> /\ cs[1].plain_body.t = "str" /\ in.description.t # "str"
        THEN [k |-> "raised", conversation |-> <<>>]
        ELSE [k |-> "returned",
              conversation |-> Turns(cs, IsDup(cs, in.description), in.staff, Len(cs))]

----------------------------------------------------------------------------
(* build_conversation on a ticket *)

MaxComments == 2

TicketComment(public, author_id, plain_body, html_body, body) ==
    [public |-> public, author_id |-> author_id, plain_body |-> plain_body,
     html_body |-> html_body, body |-> body]

TicketComments ==
    { TicketComment("true", 1, Str(<<"hello">>), NoneValue, NoneValue),
      TicketComment("true", 2, Str(<<" ", "hello", " ">>), NoneValue, Str(<<"hello">>)),
      TicketComment("true", 1, Str(<<"thanks">>), NoneValue, NoneValue),
      TicketComment("true", 2, NoneValue, Str(<<>>), Str(<<"thanks", " ">>)),
      TicketComment("true", 1, Str(<<>>), Str(<<"<p>hi</p>">>), Str(<<"hello">>)),
      TicketComment("true", 2, Str(<<" ">>), NoneValue, Str(<<"hello">>)),
      TicketComment("true", 1, NoneValue, NoneValue, NoneValue),
      TicketComment("false", 1, Str(<<"internal">>), NoneValue, Str(<<"internal">>)),
      TicketComment("false", 2, Str(<<"hello">>), NoneValue, NoneValue),
      TicketComment("absent", 2, Str(<<"thanks">>), NoneValue, NoneValue) }

Descriptions ==
    {NoneValue, Str(<<>>), Str(<<"hello">>), Str(<<"hello", " ">>), Str(<<"thanks">>)}

\* support_staff_ids: not passed (the webhook, line 173), empty, or a list
StaffLists ==
    {[given |-> FALSE, ids |-> {}], [given |-> TRUE, ids |-> {}], [given |-> TRUE, ids |-> {1}]}

InitConversation ==
    /\ env = [secret |-> NoSecret, creds |-> TRUE, mapped |-> {}]
    /\ now = 0
    /\ comments = <<>>
    /\ InitDeliveries
    /\ gIn = <<>>
    /\ gOut = <<>>
    /\ ClassifierIdle
    /\ mIn = <<>>
    /\ mOut = <<>>
    /\ \E n \in 0..MaxComments : \E cs \in [1..n -> TicketComments] :
       \E description \in Descriptions : \E staff \in StaffLists :
            bIn = <<[description |-> description, comments |-> cs, staff |-> staff]>>
    /\ bOut = <<>>

ConversationBuild ==
    /\ bOut = <<>>
    /\ bOut' = <<ConversationOf(bIn[1])>>
    /\ UNCHANGED <<bIn, mIn, mOut, pipeVars, guardVars, classVars>>

SpecConversation == InitConversation /\ [][ConversationBuild]_vars

----------------------------------------------------------------------------
(* Vocabulary of the properties *)

Did(d, ev) == \E i \in 1..Len(log[d]) : log[d][i] = ev

Entered(d) == pc[d] # "idle"

\* the header is "Bearer <token>" with the configured secret as its token
\* (blanks around the token do not count)
PresentsSecret(h, secret) ==
    \E lead, trail \in 0..2 :
        h = BearerSp \o [i \in 1..lead |-> " "] \o secret \o [i \in 1..trail |-> " "]

Authenticated(d) == env.secret = <<>> \/ PresentsSecret(req[d].auth, env.secret)

\* the body is a JSON object with a truthy ticket_id or a truthy ticket.id
CarriesTicketId(raw) ==
    /\ raw.k = "json"
    /\ raw.v.t = "obj"
    /\ \/ raw.v.ticket_id \in {"7", "'abc'"}
       \/ raw.v.ticket.t = "obj" /\ raw.v.ticket.id \in {"7", "'abc'"}

RaisedEvents ==
    {"get_ticket_err", "get_public_comments_err", "classify_err", "put_class_err", "put_tmpl_err"}

HelpdeskCalls ==
    {"get_comments", "get_comments_err", "get_ticket", "get_ticket_err",
     "get_public_comments", "get_public_comments_err",
     "put_class", "put_class_err", "put_tmpl", "put_tmpl_err"}

\* a step after ticket-id extraction raised to do_POST
StepRaised(d) ==
    \/ ~env.creds
    \/ req[d].raw.v.ticket_id = "'abc'"
    \/ \E ev \in RaisedEvents : Did(d, ev)

WrittenBy(d, kind) ==
    {i \in 1..Len(comments) : comments[i].by = d /\ comments[i].kind = kind}

----------------------------------------------------------------------------
(* C1 - C5: one request (SpecRequest) *)

\* C1: an authenticated request that carries a ticket identifier never leaves
\* do_POST without an answer and is never answered 5xx; when a step after the
\* ticket-id extraction raises (configuration, int(), a helpdesk read, the
\* classifier, either comment write), the single answer is 200 {ok:false, error}
C1_DownstreamFailureAnswered200 ==
    \A d \in Deliveries :
        (Entered(d) /\ Authenticated(d) /\ CarriesTicketId(req[d].raw)) =>
            /\ pc[d] # "crashed"
            /\ \A i \in 1..Len(resp[d]) : resp[d][i].code < 500
            /\ pc[d] = "done" => Len(resp[d]) = 1
            /\ StepRaised(d) =>
                /\ pc[d] = "done"
                /\ Len(resp[d]) = 1
                /\ resp[d][1].code = 200
                /\ DOMAIN resp[d][1].body = {"ok", "error"}
                /\ resp[d][1].body.ok = FALSE

C1_Witness ==
    \E d \in Deliveries :
        /\ Authenticated(d) /\ CarriesTicketId(req[d].raw)
        /\ Did(d, "put_class") /\ Did(d, "put_tmpl_err")
        /\ resp[d] = <<[code |-> 200, body |-> ErrorBody(HttpError)]>>

\* C2: every request that has left do_POST was sent exactly one response, with
\* status 401, 400 or 200
C2_ExactlyOneResponse ==
    \A d \in Deliveries :
        pc[d] \in Finished =>
            /\ Len(resp[d]) = 1
            /\ resp[d][1].code \in {401, 400, 200}

\* C3: with a secret configured, a request whose Authorization header does not
\* present that secret is answered 401 {ok:false, error:"unauthorized"} with the
\* body unread and no helpdesk call; with no secret configured no request is
\* answered 401 and the body is read
C3_BearerVerification ==
    \A d \in Deliveries :
        Entered(d) =>
            /\ (env.secret # <<>> /\ ~PresentsSecret(req[d].auth, env.secret)) =>
                /\ pc[d] = "done"
                /\ resp[d] = <<[code |-> 401, body |-> UnauthorizedBody]>>
                /\ log[d] = <<>>
            /\ env.secret = <<>> =>
                /\ log[d] # <<>> /\ log[d][1] = "body"
                /\ \A i \in 1..Len(resp[d]) : resp[d][i].code # 401

C3_Witness ==
    \E d \in Deliveries :
        /\ env.secret = SecretS
        /\ req[d].auth = HdrBearerWrong
        /\ CarriesTicketId(req[d].raw)
        /\ resp[d] = <<[code |-> 401, body |-> UnauthorizedBody]>>
        /\ log[d] = <<>>

\* C4 as stated: with no secret configured, "Authorization: Bearer wrong" is
\* answered 401
C4_UnconfiguredBearerWrong401 ==
    \A d \in Deliveries :
        (Entered(d) /\ env.secret = <<>> /\ req[d].auth = HdrBearerWrong) =>
            /\ resp[d] # <<>>
            /\ resp[d][1].code = 401

\* C4 amended: with no secret configured, "Authorization: Bearer wrong" is never
\* answered 401, the body is read as for any other request; the same header is
\* answered 401 when a secret other than "wrong" is configured
C4_BearerWrongNeedsSecret ==
    \A d \in Deliveries :
        (Entered(d) /\ req[d].auth = HdrBearerWrong) =>
            /\ env.secret = <<>> =>
                /\ \A i \in 1..Len(resp[d]) : resp[d][i].code # 401
                /\ Did(d, "body")
            /\ env.secret = SecretS =>
                resp[d] = <<[code |-> 401, body |-> UnauthorizedBody]>>

C4_Witness ==
    \E d \in Deliveries :
        /\ env.secret = <<>>
        /\ req[d].auth = HdrBearerWrong
        /\ pc[d] = "done"
        /\ Len(resp[d]) = 1
        /\ resp[d][1].code = 200
        /\ resp[d][1].body.ok = TRUE

\* C5: an authenticated request whose body yields no ticket identifier is
\* answered 400 and makes no helpdesk call
C5_MissingTicketId400 ==
    \A d \in Deliveries :
        (Entered(d) /\ Authenticated(d) /\ ~CarriesTicketId(req[d].raw)) =>
            /\ resp[d] = <<[code |-> 400, body |-> MissingBody]>>
            /\ \A ev \in HelpdeskCalls : ~Did(d, ev)

----------------------------------------------------------------------------
(* C6, C8 - C10: deliveries for one ticket (Spec) *)

\* C6: a delivery whose guard reported the ticket as already handled is answered
\* 200 {ok:true, skipped:true, reason}, has written no comment, and has neither
\* built the conversation nor run a classifier
C6_SkipHasNoEffect ==
    \A d \in Deliveries :
        Did(d, "guard_true") =>
            /\ pc[d] = "done"
            /\ resp[d] = <<[code |-> 200, body |-> SkippedBody]>>
            /\ \A i \in 1..Len(comments) : comments[i].by # d
            /\ \A ev \in {"get_ticket", "get_ticket_err", "get_public_comments",
                          "get_public_comments_err", "conversation", "classify",
                          "classify_err", "put_class", "put_class_err",
                          "put_tmpl", "put_tmpl_err"} : ~Did(d, ev)

C6_Witness ==
    \E d \in Deliveries :
        /\ Did(d, "guard_true")
        /\ resp[d] = <<[code |-> 200, body |-> SkippedBody]>>
        /\ \E i \in 1..Len(comments) : comments[i].by \notin {0, d}

\* C8: nothing another delivery writes after a delivery has passed the guard
\* holds that delivery back: every delivery that passed the guard and finished
\* without a step raising has posted its classification comment (so two
\* deliveries that both read before either wrote both post)
C8_GuardPassIsFinal ==
    \A d \in Deliveries :
        (pc[d] = "done" /\ Did(d, "guard_false") /\ ~StepRaised(d)) =>
            WrittenBy(d, "classification") # {}

\* two classification comments by different deliveries, each delivery having
\* fetched the comments successfully and with a cutoff that would have made it
\* skip had the other's comment been there
C8_Witness ==
    \E d, e \in Deliveries :
        /\ d # e
        /\ loc[d].guarded /\ loc[e].guarded
        /\ \E i \in WrittenBy(d, "classification"), j \in WrittenBy(e, "classification") :
            /\ comments[i].created_at.t >= loc[e].cutoff
            /\ comments[j].created_at.t >= loc[d].cutoff

\* e finished with a success answer after posting its classification comment i,
\* and d entered do_POST after that
Later(d, e, i) ==
    /\ e \in pred[d]
    /\ i \in WrittenBy(e, "classification")
    /\ Len(resp[e]) = 1
    /\ resp[e][1].code = 200
    /\ DOMAIN resp[e][1].body = DOMAIN SuccessBody(0, "", FALSE)

\* C9 as stated: a later, non-overlapping delivery that enters do_POST within
\* 10 minutes of the classification comment and whose fetch succeeds is skipped
C9_LaterDeliveryStartedInWindowSkipped ==
    \A d, e \in Deliveries :
        \A i \in 1..Len(comments) :
            (/\ Later(d, e, i)
             /\ startT[d] <= comments[i].created_at.t + WindowMinutes
             /\ loc[d].guarded) =>
                /\ Did(d, "guard_true")
                /\ WrittenBy(d, "classification") = {}

\* C9 amended: a later, non-overlapping delivery whose fetch succeeds and whose
\* guard reads the clock no later than 10 minutes after the classification
\* comment's creation time is skipped; and no later, non-overlapping delivery
\* whose fetch succeeds posts a classification comment dated within those
\* 10 minutes
C9_LaterDeliveryGuardedInWindowSkipped ==
    \A d, e \in Deliveries :
        \A i \in 1..Len(comments) :
            (Later(d, e, i) /\ loc[d].guarded) =>
                /\ loc[d].cutoff <= comments[i].created_at.t =>
                    /\ Did(d, "guard_true")
                    /\ WrittenBy(d, "classification") = {}
                /\ \A j \in WrittenBy(d, "classification") :
                    comments[j].created_at.t > comments[i].created_at.t + WindowMinutes

C9_Witness ==
    \E d, e \in Deliveries :
        \E i \in 1..Len(comments) :
            /\ Later(d, e, i)
            /\ WrittenBy(e, "template") # {}
            /\ loc[d].guarded
            /\ loc[d].cutoff <= comments[i].created_at.t
            /\ resp[d] = <<[code |-> 200, body |-> SkippedBody]>>

\* C10: every comment written by a delivery, classification JSON or template
\* text, is stored with public = false
C10_WritesArePrivate ==
    \A i \in 1..Len(comments) :
        comments[i].by # 0 => comments[i].public = "false"

C10_Witness ==
    \E d \in Deliveries :
        /\ WrittenBy(d, "classification") # {}
        /\ WrittenBy(d, "template") # {}

----------------------------------------------------------------------------
(* C7: the recency policy (SpecGuard) *)

NonPublic(c) == c.public # "true"

\* the text the guard looks at: body, or plain_body when body is empty
HasMarker(c) ==
    LET text == IF c.body # <<>> THEN c.body ELSE c.plain_body
    IN  \E i \in 1..Len(text) : text[i] = Marker

InWindow(c) == c.created_at.k = "ts" /\ c.created_at.t >= now - WindowMinutes

Uninterpretable(c) == c.created_at.k \in {"malformed", "naive"}

\* C7 as stated: the guard returns true iff some non-public comment containing
\* "classification" (quoted) was created at or after now minus 10 minutes
C7_TrueIffRecentMarker ==
    gOut # <<>> =>
        (gOut[1] <=> \E i \in 1..Len(gIn) :
                        NonPublic(gIn[i]) /\ HasMarker(gIn[i]) /\ InWindow(gIn[i]))

\* C7 amended: the guard returns true iff some non-public comment containing
\* "classification" (quoted) either was created at or after now minus 10
\* minutes or carries a non-empty creation timestamp that cannot be read as a
\* point in time (malformed, or without a time zone)
C7_TrueIffRecentOrUnreadableMarker ==
    gOut # <<>> =>
        (gOut[1] <=> \E i \in 1..Len(gIn) :
                        /\ NonPublic(gIn[i])
                        /\ HasMarker(gIn[i])
                        /\ InWindow(gIn[i]) \/ Uninterpretable(gIn[i]))

\* a note created 1 minute ago makes the guard skip
C7_Witness ==
    /\ gOut = <<TRUE>>
    /\ Len(gIn) = 1
    /\ gIn[1].public = "false"
    /\ HasMarker(gIn[1])
    /\ gIn[1].created_at = Ts(now - 1)

----------------------------------------------------------------------------
(* C11: the order of the steps of one request (Spec) *)

\* the place of a step in the order guard read, conversation build, classify,
\* classification write, mapping lookup, template write
StepRank(ev) ==
    CASE ev = "body" -> 0
      [] ev \in {"get_comments", "get_comments_err"} -> 1
      [] ev \in {"guard_true", "guard_false"} -> 2
      [] ev \in {"get_ticket", "get_ticket_err"} -> 3
      [] ev \in {"get_public_comments", "get_public_comments_err"} -> 4
      [] ev = "conversation" -> 5
      [] ev \in {"classify", "classify_err"} -> 6
      [] ev \in {"put_class", "put_class_err"} -> 7
      [] ev = "load_mapping" -> 8
      [] ev \in {"put_tmpl", "put_tmpl_err"} -> 9

WriteAttempts == {"put_class", "put_class_err", "put_tmpl", "put_tmpl_err"}

Before(d, a, b) ==
    \E i, j \in 1..Len(log[d]) : i < j /\ log[d][i] = a /\ log[d][j] = b

\* C11: within one request every step taken comes after all steps of lower
\* rank in the order guard read, conversation build, classify, classification
\* write, mapping lookup, template write; a template write is attempted only
\* after the classification write succeeded and the mapping was looked up; and
\* every write is attempted only after the guard was evaluated (to false)
C11_StepsInOrder ==
    \A d \in Deliveries :
        /\ \A i \in 1..(Len(log[d]) - 1) :
                StepRank(log[d][i]) < StepRank(log[d][i + 1])
        /\ \A i \in 1..Len(log[d]) :
                /\ log[d][i] \in {"put_tmpl", "put_tmpl_err"} =>
                        /\ Before(d, "put_class", log[d][i])
                        /\ Before(d, "load_mapping", log[d][i])
                /\ log[d][i] \in WriteAttempts =>
                        /\ Before(d, "guard_false", log[d][i])
                        /\ Before(d, "conversation", log[d][i])
                        /\ Before(d, "classify", log[d][i])

C11_Witness ==
    \E d \in Deliveries :
        log[d] = <<"body", "get_comments", "guard_false", "get_ticket",
                   "get_public_comments", "conversation", "classify",
                   "put_class", "load_mapping", "put_tmpl">>

----------------------------------------------------------------------------
(* C20: a missing helpdesk credential (SpecRequest) *)

\* C20 as stated: an authenticated request with a ticket identifier, handled
\* while a helpdesk credential is missing, does not end in an HTTP 200 response
C20_MissingCredentialNot200 ==
    \A d \in Deliveries :
        (Entered(d) /\ Authenticated(d) /\ CarriesTicketId(req[d].raw) /\ ~env.creds) =>
            \A i \in 1..Len(resp[d]) : resp[d][i].code # 200

\* C20 amended: from_env raises on a missing credential, and inside a webhook
\* request the endpoint catches that error: the request ends with the single
\* answer 200 {ok:false, error:"Missing ZENDESK_..."}, no helpdesk call is
\* made and nothing is written
C20_MissingCredentialAnswered200 ==
    \A d \in Deliveries :
        (Entered(d) /\ Authenticated(d) /\ CarriesTicketId(req[d].raw) /\ ~env.creds) =>
            /\ pc[d] = "done"
            /\ resp[d] = <<[code |-> 200, body |-> ErrorBody(CfgError)]>>
            /\ \A ev \in HelpdeskCalls : ~Did(d, ev)
            /\ \A i \in 1..Len(comments) : comments[i].by # d

C20_Witness ==
    \E d \in Deliveries :
        /\ ~env.creds /\ Authenticated(d) /\ CarriesTicketId(req[d].raw)
        /\ req[d].raw.v.ticket_id = "7"
        /\ resp[d] = <<[code |-> 200, body |-> ErrorBody(CfgError)]>>

----------------------------------------------------------------------------
(* C12 - C19: the classifier strategies (SpecClassify) *)

Ran(kind) == chosen = <<Chosen(kind)>> /\ cOut # <<>>

RanModel == Ran("llm") \/ Ran("vector_llm")

\* the provider returned a message and classify went on to read it
ModelAnswered == RanModel /\ cIn[1].outcome.call = "returns"

Fallback == Result("miscellaneous", 60, FallbackReasoning)

\* the JSON object the model printed, where json.loads can read it
ReadableObject(c) ==
    c.k = "text" /\ c.wrap \in {"bare", "fenced"} /\ c.valid /\ c.v.t = "obj"

\* C12: whenever classify returns, under any strategy and for any input, the
\* classification is a member of CATEGORIES; a classification the model gave
\* that is a string outside the set, a number or null comes back as
\* "miscellaneous"
C12_ClassificationInCategories ==
    (cOut # <<>> /\ ~cOut[1].raises) =>
        /\ cOut[1].result.classification \in CATEGORIES
        /\ (ModelAnswered /\ ReadableObject(cIn[1].outcome.content)) =>
              LET given == cIn[1].outcome.content.v.classification
              IN  ~(given.t = "str" /\ given.s \in CATEGORIES) =>
                      cOut[1].result.classification = "miscellaneous"

C12_Witness ==
    /\ Ran("llm")
    /\ cIn[1].outcome.content =
          Content("text", "bare", TRUE,
                  Json("obj", Cls("str", "billing"), Conf("int", 90, <<>>), "x"))
    /\ cOut = <<Returned(Result("miscellaneous", 90, "x"))>>

\* C13: every result returned by any strategy has a confidence in 0..100
C13_ConfidenceInRange ==
    (cOut # <<>> /\ ~cOut[1].raises) => cOut[1].result.confidence \in 0..100

\* C14: choose_classifier does not raise; it returns Vector+LLM exactly when
\* QDRANT_URL and OPENAI_API_KEY are set and VectorLlmClassifier() succeeds,
\* otherwise LLM exactly when OPENAI_API_KEY is set and LlmClassifier()
\* succeeds, otherwise Rule-Based; without OPENAI_API_KEY it is Rule-Based
C14_SelectionOrder ==
    chosen # <<>> =>
        LET e == clsEnv
            vector == e.qdrant_url # "unset" /\ e.openai_key /\ ~VectorLlmInitRaises(e)
            llm == e.openai_key /\ ~LlmInitRaises(e)
        IN  /\ ~chosen[1].raises
            /\ chosen[1].kind \in {"vector_llm", "llm", "rule"}
            /\ chosen[1].kind = "vector_llm" <=> vector
            /\ chosen[1].kind = "llm" <=> (~vector /\ llm)
            /\ chosen[1].kind = "rule" <=> (~vector /\ ~llm)
            /\ ~e.openai_key => chosen[1].kind = "rule"

C14_Witness ==
    /\ chosen = <<Chosen("llm")>>
    /\ clsEnv.qdrant_url = "set"
    /\ clsEnv.openai_key
    /\ VectorLlmInitRaises(clsEnv)

\* the groups in their order, with the confidence of each
GroupOrder ==
    <<[cat |-> "refund", conf |-> 90],
      [cat |-> "pictures-not-received-spam", conf |-> 85],
      [cat |-> "regeneration", conf |-> 80],
      [cat |-> "invoice", conf |-> 90],
      [cat |-> "reupload", conf |-> 80],
      [cat |-> "influencers", conf |-> 80],
      [cat |-> "team-info", conf |-> 75],
      [cat |-> "feedback", conf |-> 70],
      [cat |-> "linkedin", conf |-> 85],
      [cat |-> "sppam", conf |-> 95]>>

\* the groups with a keyword that is a substring of the lowercased text
Hits(text) ==
    LET t == Lower(text)
    IN  {n \in DOMAIN RuleGroups : AnyKeyword(RuleGroups[n], t)}

\* k occurs in text, each letter in either case
OccursAnyCase(k, text) ==
    LET upper == [j \in 1..Len(k) |->
                    IF \E n \in DOMAIN LowerCase : LowerCase[n] = k[j]
                    THEN UpperCase[CHOOSE n \in DOMAIN LowerCase : LowerCase[n] = k[j]]
                    ELSE k[j]]
    IN  \E i \in 0..(Len(text) - Len(k)) : \A j \in 1..Len(k) :
            text[i + j] = k[j] \/ text[i + j] = upper[j]

RefundKeywords ==
    {<<"r", "e", "f", "u", "n", "d">>,
     <<"m", "o", "n", "e", "y", " ", "b", "a", "c", "k">>,
     <<"c", "h", "a", "r", "g", "e", "b", "a", "c", "k">>}

\* C15: the rule-based result is the category and confidence of the earliest
\* group, in the order refund, pictures-not-received-spam, regeneration,
\* invoice, reupload, influencers, team-info, feedback, linkedin, sppam, that
\* has a keyword in the lowercased text; a text with "refund", "money back"
\* or "chargeback" in any letter case gives refund with confidence 90
C15_EarliestGroupWins ==
    Ran("rule") =>
        LET text == cIn[1]
            r == cOut[1].result
            hits == Hits(text)
        IN  /\ ~cOut[1].raises
            /\ hits # {} =>
                  LET first == CHOOSE n \in hits : \A m \in hits : n <= m
                  IN  /\ r.classification = GroupOrder[first].cat
                      /\ r.confidence = GroupOrder[first].conf
            /\ (\E k \in RefundKeywords : OccursAnyCase(k, text)) =>
                  r.classification = "refund" /\ r.confidence = 90

C15_Witness ==
    /\ Ran("rule")
    /\ cIn = <<<<"R", "E", "F", "U", "N", "D", "s", "e", "o">>>>
    /\ cOut = <<Returned(Result("refund", 90, "Refund keywords detected"))>>

\* C16: a text whose lowercased form contains no keyword of any group is
\* classified "miscellaneous" with confidence 40
C16_NoKeywordMiscellaneous ==
    (Ran("rule") /\ Hits(cIn[1]) = {}) =>
        /\ ~cOut[1].raises
        /\ cOut[1].result.classification = "miscellaneous"
        /\ cOut[1].result.confidence = 40

C16_Witness ==
    /\ Ran("rule")
    /\ cIn = <<<<"h", "e", "l", "l", "o", "r", "e">>>>
    /\ cOut = <<Returned(Result("miscellaneous", 40, "No clear category match"))>>

\* C17: when the chat-completion request raises, classify of the LLM and
\* Vector+LLM strategies returns miscellaneous / 60 / "LLM output parsing
\* fallback" and does not raise
C17_ProviderFailureFallsBack ==
    (RanModel /\ cIn[1].outcome.call = "raises") => cOut = <<Returned(Fallback)>>

\* the output holds no JSON object: it is absent, empty or blank, is not JSON,
\* or is a JSON list, number, string or null
HoldsNoObject(c) == c.k # "text" \/ ~c.valid \/ c.v.t # "obj"

\* C18 as stated: every model output from which no JSON object can be
\* extracted gives exactly miscellaneous / 60 / "LLM output parsing fallback"
C18_NoObjectGivesFallback ==
    (ModelAnswered /\ HoldsNoObject(cIn[1].outcome.content)) =>
        cOut = <<Returned(Fallback)>>

\* C18 amended: every non-empty output from which no JSON object can be
\* extracted (white space, prose, broken JSON, a JSON list, number, string or
\* null; bare, fenced or after prose) gives exactly the fallback result, and an absent or
\* empty output is read as the empty object: miscellaneous / 60 with an empty
\* reasoning
C18_NonEmptyNoObjectGivesFallback ==
    ModelAnswered =>
        LET c == cIn[1].outcome.content
        IN  /\ (c.k \in {"blank", "text"} /\ HoldsNoObject(c)) =>
                  cOut = <<Returned(Fallback)>>
            /\ c.k \in {"none", "empty"} =>
                  cOut = <<Returned(Result("miscellaneous", 60, ""))>>

C18_Witness ==
    /\ Ran("vector_llm")
    /\ cIn[1].outcome.content = Content("text", "fenced", TRUE, NonObject("list"))
    /\ cOut = <<Returned(Fallback)>>

\* C19: whatever text the model returns, classify does not raise; JSON that is
\* not an object, a confidence that int() rejects and a classification that
\* is not a string all give a result with category "miscellaneous"
C19_NoOutputRaises ==
    ModelAnswered =>
        LET c == cIn[1].outcome.content
        IN  /\ ~cOut[1].raises
            /\ (\/ ~ReadableObject(c)
                \/ ConfIntRaises(c.v.confidence)
                \/ c.v.classification.t \notin {"absent", "str"}) =>
                  cOut[1].result.classification = "miscellaneous"

----------------------------------------------------------------------------
(* C25: a failed comment fetch inside the guard (Spec) *)

\* C25: when the guard's comment fetch fails, the guard returns false without
\* raising: the request is not skipped, is not answered by the guard, and goes
\* on to build_conversation
C25_GuardFetchFailureProceeds ==
    \A d \in Deliveries :
        Did(d, "get_comments_err") =>
            /\ Did(d, "guard_false") /\ ~Did(d, "guard_true")
            /\ pc[d] \notin {"guard", "crashed"}
            /\ \A i \in 1..Len(resp[d]) : resp[d][i].body # SkippedBody
            /\ pc[d] = "build" => resp[d] = <<>>
            /\ pc[d] \notin {"guard", "build"} =>
                  Did(d, "get_ticket") \/ Did(d, "get_ticket_err")

\* a delivery whose fetch failed classifies although an earlier delivery's note
\* is on the ticket
C25_Witness ==
    \E d, e \in Deliveries :
        /\ e \in pred[d]
        /\ WrittenBy(e, "classification") # {}
        /\ Did(d, "get_comments_err")
        /\ WrittenBy(d, "classification") # {}

----------------------------------------------------------------------------
(* C23: requests without a mapped answer (Spec) *)

SuccessResponse(d) ==
    /\ Len(resp[d]) = 1
    /\ resp[d][1].code = 200
    /\ DOMAIN resp[d][1].body = DOMAIN SuccessBody(0, "", FALSE)

\* C23: a request that wrote its classification comment while the mapping is
\* empty or has no entry for the category makes exactly that one write, never
\* attempts a template write, and ends with the one answer 200 {ok:true, ...,
\* answer_posted:false}; in every success answer answer_posted is true iff the
\* request wrote a template comment
C23_UnmappedCategoryIsNotAnError ==
    \A d \in Deliveries :
        /\ (Did(d, "put_class") /\ loc[d].result.classification \notin env.mapped) =>
              /\ Cardinality(WrittenBy(d, "classification")) = 1
              /\ WrittenBy(d, "template") = {}
              /\ ~Did(d, "put_tmpl") /\ ~Did(d, "put_tmpl_err")
              /\ pc[d] = "done"
              /\ resp[d] = <<[code |-> 200,
                              body |-> SuccessBody(loc[d].ticket_id,
                                                   loc[d].result.classification, FALSE)]>>
        /\ SuccessResponse(d) =>
              (resp[d][1].body.answer_posted <=> WrittenBy(d, "template") # {})

C23_Witness ==
    \E d \in Deliveries :
        /\ env.mapped = {"refund"}
        /\ loc[d].result.classification = "miscellaneous"
        /\ Did(d, "put_class")
        /\ resp[d] = <<[code |-> 200, body |-> SuccessBody(7, "miscellaneous", FALSE)]>>

----------------------------------------------------------------------------
(* C30: a template write that fails after the classification write (Spec) *)

\* delivery e wrote its classification comment (comment i) and then failed to
\* write the mapped answer
Stranded(e, i) ==
    /\ i \in WrittenBy(e, "classification")
    /\ Did(e, "put_tmpl_err")

\* d is the same request, delivered again after e was answered
Redelivery(d, e) == e \in pred[d] /\ req[d] = req[e]

PostedInWindow(i) ==
    {j \in 1..Len(comments) :
        /\ comments[j].kind = "template"
        /\ comments[j].created_at.t <= comments[i].created_at.t + WindowMinutes}

----------------------------------------------------------------------------
(* C26: timestamps the guard cannot interpret (SpecGuard) *)

\* C26: whenever some non-public comment containing "classification" (quoted)
\* has a creation timestamp that is malformed, without a time zone, absent or
\* empty, the guard returns true
C26_UnreadableTimestampSkips ==
    gOut # <<>> =>
        ((\E i \in 1..Len(gIn) :
              /\ NonPublic(gIn[i])
              /\ HasMarker(gIn[i])
              /\ gIn[i].created_at.k \in {"malformed", "naive", "absent"}) => gOut[1])

----------------------------------------------------------------------------
(* C28: a JSON object inside prose (SpecClassify) *)

\* C28: a model output that is prose around a JSON object naming a category
\* of the set and an integer confidence is classified as the object says
C28_EmbeddedObjectExtracted ==
    ModelAnswered =>
        LET c == cIn[1].outcome.content
        IN  (/\ c.k = "text" /\ c.wrap = "prose" /\ c.valid /\ c.v.t = "obj"
             /\ c.v.classification.t = "str"
             /\ c.v.classification.s \in CATEGORIES
             /\ c.v.confidence.t = "int") =>
                /\ ~cOut[1].raises
                /\ cOut[1].result.classification = c.v.classification.s
                /\ cOut[1].result.confidence = c.v.confidence.n

----------------------------------------------------------------------------
(* C21, C22, C29: the response mapping (SpecMapping) *)

\* C21: with the JSON object {"refund": "Please see our refund policy."} at
\* the override path, the loaded mapping gives that text for "refund" and
\* nothing for "unknown"
C21_JsonRoundTrip ==
    (mOut # <<>> /\ mIn[1].override_set /\ mIn[1].override = JsonRefundFile) =>
        /\ Lookup(mOut[1], <<"refund">>) = <<"Please see our refund policy.">>
        /\ Lookup(mOut[1], <<"unknown">>) = <<>>

\* a row contributes an entry: it has two fields that are non-empty once trimmed
Contributes(row) ==
    Len(row) >= 2 /\ Strip(row[1]) # <<>> /\ Strip(row[2]) # <<>>

\* the key/value pairs of the rows, as a mapping: trimmed lowercased category
\* to trimmed text, a later row replacing an earlier one with the same key
PairsOf(rows) ==
    {[k |-> LowerField(Strip(rows[i][1])), v |-> Strip(rows[i][2])] :
        i \in {i \in 1..Len(rows) :
                /\ Contributes(rows[i])
                /\ \A j \in (i + 1)..Len(rows) :
                      Contributes(rows[j]) =>
                          LowerField(Strip(rows[j][1])) # LowerField(Strip(rows[i][1]))}}

\* C22: a file with delimiter ; and header category;response_text loads to
\* the mapping of its rows' key/value pairs: lowercased trimmed category to
\* trimmed text, over the rows with both fields non-empty
C22_CsvLoadsToItsPairs ==
    (mOut # <<>> /\ mIn[1].rendered) => mOut[1] = PairsOf(mIn[1].rows)

C22_Witness ==
    /\ mOut = <<{[k |-> <<"refund">>, v |-> <<"bill">>]}>>
    /\ mIn[1].rendered
    /\ mIn[1].rows = << <<(<<" ", "Refund", " ">>), (<<" ", "bill", " ">>)>>,
                        <<(<<>>), (<<"policy">>)>> >>

\* C29: the mapping returned is that of the first candidate, in the order
\* override path then conventional paths, that yields at least one entry; a
\* candidate that exists but yields none is passed over
C29_FirstCandidateWithEntriesWins ==
    mOut # <<>> =>
        LET cands == Candidates(mIn[1])
            yields == {i \in 1..Len(cands) :
                          cands[i].k = "file" /\ ParseCsv(cands[i].lines) # {}}
        IN  IF yields = {} THEN mOut[1] = {}
            ELSE mOut[1] = ParseCsv(cands[CHOOSE i \in yields : \A j \in yields : i <= j].lines)

----------------------------------------------------------------------------
(* C24, C27: the conversation (SpecConversation) *)

\* positions of the set S in increasing order
Ascending(S) ==
    [k \in 1..Cardinality(S) |->
        CHOOSE i \in S : Cardinality({j \in S : j < i}) = k - 1]

\* the first public comment, if any
FirstPublic(in) ==
    {i \in 1..Len(in.comments) :
        /\ in.comments[i].public = "true"
        /\ \A j \in 1..(i - 1) : in.comments[j].public # "true"}

EqualsDescription(c, in) ==
    c.plain_body.t = "str" /\ Strip(c.plain_body.s) = Strip(in.description.s)

\* the comments of the ticket that make a turn, in the order returned
KeptComments(in) ==
    Ascending({i \in 1..Len(in.comments) :
                /\ in.comments[i].public = "true"
                /\ CommentText(in.comments[i]) # <<>>
                /\ ~(i \in FirstPublic(in) /\ EqualsDescription(in.comments[i], in))})

InAllowList(c, in) == in.staff.given /\ c.author_id \in in.staff.ids

\* C24: a turn is labeled "SupportStaff" iff its comment's author id is in
\* the supplied allow-list and "Customer" otherwise, so every turn is
\* "Customer" when no allow-list is supplied
C24_StaffLabel ==
    (bOut # <<>> /\ bOut[1].k = "returned") =>
        LET in == bIn[1]
            kept == KeptComments(in)
            conv == bOut[1].conversation
        IN  /\ Len(conv) = Len(kept)
            /\ \A k \in 1..Len(conv) :
                 conv[k].role = IF InAllowList(in.comments[kept[k]], in)
                                THEN "SupportStaff" ELSE "Customer"

\* C27: the conversation is the public comments in the order returned,
\* without those of empty text and without the first public comment when
\* its trimmed plain text equals the trimmed description; no other comment
\* is dropped for equalling the description and no non-public one appears
C27_ConversationIsKeptComments ==
    (bOut # <<>> /\ bOut[1].k = "returned") =>
        LET in == bIn[1]
            kept == KeptComments(in)
            conv == bOut[1].conversation
        IN  /\ Len(conv) = Len(kept)
            /\ \A k \in 1..Len(conv) :
                 conv[k].message = CommentText(in.comments[kept[k]])

C27_Witness ==
    /\ bOut # <<>>
    /\ bOut[1].k = "returned"
    /\ bIn[1].description = Str(<<"hello">>)
    /\ Len(bIn[1].comments) = 2
    /\ bIn[1].comments[1].public = "true"
    /\ bIn[1].comments[1].plain_body = Str(<<" ", "hello", " ">>)
    /\ bIn[1].comments[2].public = "true"
    /\ bIn[1].comments[2].plain_body = Str(<<"hello">>)
    /\ Len(bOut[1].conversation) = 1
    /\ bOut[1].conversation[1].message = <<"hello">>

====
